---------------------------- MODULE Spec2Model ----------------------------
(***************************************************************************)
(* Knowledge-base ingestion and semantic search of back-annie.             *)
(*                                                                         *)
(* State: the committed relational tables kb_documents, files and          *)
(* kb_chunks, the Redis job keys job:{doc} and job:{doc}:progress, one     *)
(* record per in-flight HTTP request to POST /documents/{id}/ingest (the   *)
(* handler is a coroutine that suspends at the embedding call, and several *)
(* workers may serve requests at once), and the last HTTP response.        *)
(*                                                                         *)
(* Abstractions: a downloaded text is represented by its length and a      *)
(* chunk text[i:j] by the span <<i, j>>; an embedding is one integer       *)
(* coordinate and <-> is the distance on it; a storage key is represented  *)
(* by the tenant named in its "tenants/{tenant}/" prefix.  The object      *)
(* store and the embedding provider are external: what they return is an   *)
(* input of the step that calls them.  In kb.py the download step reads    *)
(* os.getenv although the module never imports os; the model lets the      *)
(* download step either fail (which covers that NameError) or succeed      *)
(* (the module as it behaves once the name resolves).                      *)
(*                                                                         *)
(* SpecChunk follows one call of _chunk on a text of characters, and       *)
(* SpecLlm the read-through cache of llm_repository for one tenant: its    *)
(* settings row, its Redis key, and concurrent calls of get_llm_settings   *)
(* beside the calls of upsert_llm_settings.                                *)
(***************************************************************************)
EXTENDS Integers, Sequences, FiniteSets, TLC

\* ------------------------------------------------------------------ bounds
MaxTenants == 2
MaxDocs == 2
MaxRuns == 2
MaxVec == 1
MaxK == 2
MaxProgress == 1
MaxLen == 5
MaxChar == 2
MaxSize == 3
MaxOverlap == 3
\* by how many items the embedding answer may fall short of, or exceed, the
\* number of texts sent
MaxMissing == 1
MaxExtra == 0
MaxReaders == 2
MaxSetting == 2

\* ------------------------------------------------------- program constants
DefaultSize == 3500
DefaultOverlap == 400

Tenants == 1..MaxTenants
DocIds == 1..MaxDocs
Runs == 1..MaxRuns
Vecs == 0..MaxVec
\* k is an unvalidated int of the query string: negative, zero or positive
Ks == -1..MaxK
\* lengths of the texts the object store serves: empty, shorter than one
\* chunk, longer than one chunk
TextLens == {0, 3000, 4000}
\* the length of the text of the end-to-end scenario
ScenarioLens == {10000}
\* storage keys a client may send: one under each tenant's prefix, or none
NoKey == 0
StorageKeys == Tenants \cup {NoKey}
\* Redis GET of a status key that is not set (a progress key holds <<n>>
\* when set and <<>> when not)
None == "nil"

\* concurrent callers of get_llm_settings and the settings values written
Readers == 1..MaxReaders
Settings == 1..MaxSetting

\* texts, sizes and overlaps a call of _chunk is given
Chars == 1..MaxChar
Texts == UNION {[1..n -> Chars] : n \in 0..MaxLen}
Sizes == 1..MaxSize
Overlaps == 0..MaxOverlap

\* ck is one call of _chunk on a text of characters: its arguments, its
\* cursor i and the list it builds.  llm is the LLM settings of one tenant:
\* the llm_settings row, the Redis key llm_settings:{tenant}, and the calls
\* of get_llm_settings and upsert_llm_settings in flight
VARIABLES docs, files, chunks, run, job, prog, resp, ck, llm

vars == <<docs, files, chunks, run, job, prog, resp, ck, llm>>

\* ----------------------------------------------------------------- helpers
Min(a, b) == IF a < b THEN a ELSE b

Abs(x) == IF x < 0 THEN -x ELSE x

RECURSIVE ChunkLoop(_, _, _, _)
\* the while loop of _chunk from cursor i on a text of length n
ChunkLoop(i, n, size, overlap) ==
    IF i < n
    THEN LET j == Min(i + size, n)
             nxt == IF j - overlap > i THEN j - overlap ELSE j
         IN  <<(<<i, j>>)>> \o ChunkLoop(nxt, n, size, overlap)
    ELSE <<>>

\* _chunk(text, size, overlap) on a text of length n: the spans text[i:j]
ChunkSpans(n, size, overlap) == ChunkLoop(0, n, size, overlap)

\* zip(parts, vecs): stops at the shorter of the two
ZipLen(parts, vecs) == Min(Len(parts), Len(vecs))

IdleRun ==
    [pc |-> "idle", doc_id |-> 0, tenant_id |-> 0,
     storage_key |-> 0, parts |-> <<>>, vecs |-> <<>>, tx |-> <<>>]

NoResp ==
    [op |-> "none", caller |-> 0, doc |-> 0, code |-> 0, status |-> "",
     progress |-> 0, chunks |-> 0, qvec |-> 0, k |-> 0, hits |-> <<>>,
     results |-> <<>>]

\* a run has ended with an exception or a 404: nothing of it is kept
Ended(r, how) == [IdleRun EXCEPT !.pc = how, !.doc_id = run[r].doc_id,
                                 !.tenant_id = run[r].tenant_id]

InFlight(r) == run[r].pc \in {"download", "embed", "insert"}

\* committed kb_chunks rows (positions in the table) inserted by run r
CommittedBy(r) == {i \in 1..Len(chunks) : chunks[i].xmin = r}

\* committed kb_chunks rows of document d
RowsOfDoc(d) == {i \in 1..Len(chunks) : chunks[i].doc_id = d}

\* no call of _chunk on a text of characters is being followed
IdleChunker ==
    [pc |-> "idle", text |-> <<>>, size |-> 0, overlap |-> 0, i |-> 0,
     n |-> 0, chunks |-> <<>>]

\* no settings row, no cache key, no call in flight.  db and cache hold a
\* settings value, 0 for "no row" / "key not set".  Of each call of
\* get_llm_settings: where it stands, the row it read, what it returned, and
\* since: the value of the last finished upsert when the call began, set to
\* 0 by any write that commits while the call runs.  settled is the value of
\* the last upsert that has returned, 0 from a commit to its return.
IdleLlm ==
    [db |-> 0, cache |-> 0, settled |-> 0, up |-> "idle",
     get |-> [p \in Readers |-> [pc |-> "idle", row |-> 0, ret |-> 0, since |-> 0]]]

\* -------------------------------------------------------------------- Init
Init ==
    /\ ck = IdleChunker
    /\ llm = IdleLlm
    /\ docs = <<>>
    /\ files = <<>>
    /\ chunks = <<>>
    /\ run = [r \in Runs |-> IdleRun]
    /\ job = [d \in DocIds |-> None]
    /\ prog = [d \in DocIds |-> <<>>]
    /\ resp = NoResp

\* mutant of OwnsKey: any key under "tenants/" passes
OwnsKeyAnyTenant(tenant_id, storage_key) == storage_key # NoKey

\* storage_key.startswith("tenants/{tenant_id}/"); a payload without a
\* storage_key gives "", which has no such prefix
OwnsKey(tenant_id, storage_key) == storage_key = tenant_id

\* ------------------------------------------------------------ commit_file
\* POST /files/commit: commit_file checks the key's tenant prefix, then
\* insert_file_and_doc inserts the File row and the Document row in one
\* transaction.
commit_file(tenant_id, storage_key) ==
    /\ IF ~OwnsKey(tenant_id, storage_key)
       THEN /\ resp' = [NoResp EXCEPT !.op = "commit", !.caller = tenant_id,
                                      !.code = 403]
            /\ UNCHANGED <<docs, files>>
       ELSE /\ Len(docs) < MaxDocs
            /\ files' = Append(files, [tenant_id |-> tenant_id,
                                       storage_key |-> storage_key])
            /\ docs' = Append(docs, [tenant_id |-> tenant_id,
                                     file_id |-> Len(files) + 1,
                                     status |-> "ingesting"])
            /\ resp' = [NoResp EXCEPT !.op = "commit", !.caller = tenant_id,
                                      !.code = 200, !.doc = Len(docs) + 1]
    /\ UNCHANGED <<chunks, run, job, prog>>

\* mutant of insert_file_and_docFail: the File row was committed on its own
\* before the second INSERT failed
insert_file_and_docFailKeepsFile(tenant_id, storage_key) ==
    /\ OwnsKey(tenant_id, storage_key)
    /\ Len(files) < MaxDocs
    /\ files' = Append(files, [tenant_id |-> tenant_id,
                               storage_key |-> storage_key])
    /\ resp' = [NoResp EXCEPT !.op = "commit", !.caller = tenant_id,
                              !.code = 500]
    /\ UNCHANGED <<docs, chunks, run, job, prog>>

\* a statement of insert_file_and_doc raises (the INSERT INTO kb_documents
\* after the File row was inserted, or the commit): get_conn rolls the
\* transaction back and re-raises, so neither row is kept
insert_file_and_docFail(tenant_id, storage_key) ==
    /\ OwnsKey(tenant_id, storage_key)
    /\ resp' = [NoResp EXCEPT !.op = "commit", !.caller = tenant_id,
                              !.code = 500]
    /\ UNCHANGED <<docs, files, chunks, run, job, prog>>

\* ----------------------------------------------------------------- ingest
\* SELECT d.tenant_id, f.storage_key FROM kb_documents d JOIN files f
\* ON f.id = d.file_id WHERE d.id = doc_id
SelectDocFile(doc_id) ==
    {<<docs[d].tenant_id, files[docs[d].file_id].storage_key>> :
        d \in {x \in 1..Len(docs) : x = doc_id /\ docs[x].file_id \in 1..Len(files)}}

\* mutant of IngestStart: the run takes the tenant from auth, not from the
\* Document row
IngestStartCallerTenant(r, caller, doc_id) ==
    /\ run[r].pc = "idle"
    /\ \A q \in Runs : q < r => run[q].pc # "idle"
    /\ IF SelectDocFile(doc_id) = {}
       THEN /\ run' = [run EXCEPT ![r] = [IdleRun EXCEPT !.pc = "notfound",
                                    !.doc_id = doc_id]]
            /\ resp' = [NoResp EXCEPT !.op = "ingest", !.caller = caller,
                                      !.doc = doc_id, !.code = 404]
       ELSE \E row \in SelectDocFile(doc_id) :
            /\ run' = [run EXCEPT ![r] = [IdleRun EXCEPT !.pc = "download",
                                    !.doc_id = doc_id,
                                    !.tenant_id = caller,
                                    !.storage_key = row[2]]]
            /\ resp' = resp
    /\ UNCHANGED <<docs, files, chunks, job, prog>>

\* POST /documents/{doc_id}/ingest, step 1: look the document up; 404 when
\* there is no row.  auth (the caller's tenant) is a parameter the handler
\* never reads: it is in no query and is not kept.
IngestStart(r, caller, doc_id) ==
    /\ run[r].pc = "idle"
    /\ \A q \in Runs : q < r => run[q].pc # "idle"
    /\ IF SelectDocFile(doc_id) = {}
       THEN /\ run' = [run EXCEPT ![r] = [IdleRun EXCEPT !.pc = "notfound",
                                    !.doc_id = doc_id]]
            /\ resp' = [NoResp EXCEPT !.op = "ingest", !.caller = caller,
                                      !.doc = doc_id, !.code = 404]
       ELSE \E row \in SelectDocFile(doc_id) :
            /\ run' = [run EXCEPT ![r] = [IdleRun EXCEPT !.pc = "download",
                                    !.doc_id = doc_id,
                                    !.tenant_id = row[1],
                                    !.storage_key = row[2]]]
            /\ resp' = resp
    /\ UNCHANGED <<docs, files, chunks, job, prog>>

\* steps 2-3: download the object, decode it, chunk the text with the
\* default size and overlap
IngestDownload(r, n) ==
    /\ run[r].pc = "download"
    /\ run' = [run EXCEPT ![r].pc = "embed",
                          ![r].parts = ChunkSpans(n, DefaultSize, DefaultOverlap)]
    /\ UNCHANGED <<docs, files, chunks, job, prog, resp>>

\* the download raises (object missing, storage error, unresolved name)
IngestDownloadFail(r) ==
    /\ run[r].pc = "download"
    /\ run' = [run EXCEPT ![r] = Ended(r, "download_failed")]
    /\ resp' = [NoResp EXCEPT !.op = "ingest",
                              !.doc = run[r].doc_id, !.code = 500]
    /\ UNCHANGED <<docs, files, chunks, job, prog>>

\* embed_async returns [d["embedding"] for d in data["data"]]: one vector
\* per item of the provider's answer, in the answer's order.  The answer
\* normally has one item per input text; nothing in embed_async compares
\* the two lengths, so an answer with fewer items or with one more comes
\* back as it is.
embed_async(texts) ==
    UNION {[1..m -> Vecs] :
              m \in {x \in (Len(texts) - MaxMissing)..(Len(texts) + MaxExtra) : x >= 0}}

\* step 4: vecs = await embed_async(parts)
IngestEmbed(r) ==
    /\ run[r].pc = "embed"
    /\ \E vecs \in embed_async(run[r].parts) :
          run' = [run EXCEPT ![r].pc = "insert", ![r].vecs = vecs]
    /\ UNCHANGED <<docs, files, chunks, job, prog, resp>>

\* mutant of IngestEmbedFail: the failure is caught and the chunks are
\* stored without their vectors
IngestEmbedFailStoresText(r) ==
    /\ run[r].pc = "embed"
    /\ chunks' = chunks \o [i \in 1..Len(run[r].parts) |->
                      [tenant_id |-> run[r].tenant_id, doc_id |-> run[r].doc_id,
                       chunk_index |-> i - 1, text |-> run[r].parts[i],
                       embedding |-> 0, xmin |-> r]]
    /\ run' = [run EXCEPT ![r] = Ended(r, "embed_failed")]
    /\ resp' = [NoResp EXCEPT !.op = "ingest", !.doc = run[r].doc_id,
                              !.code = 500]
    /\ UNCHANGED <<docs, files, job, prog>>

\* embed_async raises (missing key, raise_for_status on a non-2xx answer):
\* the exception leaves the handler before any database statement
IngestEmbedFail(r) ==
    /\ run[r].pc = "embed"
    /\ run' = [run EXCEPT ![r] = Ended(r, "embed_failed")]
    /\ resp' = [NoResp EXCEPT !.op = "ingest",
                              !.doc = run[r].doc_id, !.code = 500]
    /\ UNCHANGED <<docs, files, chunks, job, prog>>

\* mutant of ChunkRow: the vectors are paired with the chunks from the end
ChunkRowReversedVecs(r, i) ==
    [tenant_id |-> run[r].tenant_id, doc_id |-> run[r].doc_id,
     chunk_index |-> i - 1, text |-> run[r].parts[i],
     embedding |-> run[r].vecs[Len(run[r].vecs) + 1 - i], xmin |-> r]

\* the row of the i-th INSERT INTO kb_chunks of run r
ChunkRow(r, i) ==
    [tenant_id |-> run[r].tenant_id, doc_id |-> run[r].doc_id,
     chunk_index |-> i - 1, text |-> run[r].parts[i],
     embedding |-> run[r].vecs[i], xmin |-> r]

\* mutant of IngestInsert: the connection is in autocommit mode, each
\* INSERT is visible at once
IngestInsertAutocommit(r) ==
    /\ run[r].pc = "insert"
    /\ Len(run[r].tx) < ZipLen(run[r].parts, run[r].vecs)
    /\ chunks' = Append(chunks, ChunkRow(r, Len(run[r].tx) + 1))
    /\ run' = [run EXCEPT ![r].tx = Append(@, ChunkRow(r, Len(@) + 1))]
    /\ UNCHANGED <<docs, files, job, prog, resp>>

\* step 5, one iteration of the loop: INSERT inside the open transaction;
\* the row stays invisible to other connections until the commit
IngestInsert(r) ==
    /\ run[r].pc = "insert"
    /\ Len(run[r].tx) < ZipLen(run[r].parts, run[r].vecs)
    /\ run' = [run EXCEPT ![r].tx = Append(@, ChunkRow(r, Len(@) + 1))]
    /\ UNCHANGED <<docs, files, chunks, job, prog, resp>>

\* a statement of the transaction raises: get_conn rolls back and re-raises
IngestInsertFail(r) ==
    /\ run[r].pc = "insert"
    /\ run' = [run EXCEPT ![r] = Ended(r, "insert_failed")]
    /\ resp' = [NoResp EXCEPT !.op = "ingest",
                              !.doc = run[r].doc_id, !.code = 500]
    /\ UNCHANGED <<docs, files, chunks, job, prog>>

\* mutant of SetReady: the UPDATE matches no row
SetReadyNoRow(ds, doc_id) == ds

\* mutant of SetReady: the UPDATE has no WHERE clause
SetReadyEveryDoc(ds, doc_id) ==
    [d \in 1..Len(ds) |-> [ds[d] EXCEPT !.status = "ready"]]

\* UPDATE kb_documents SET status = 'ready' WHERE id = doc_id
SetReady(ds, doc_id) ==
    [d \in 1..Len(ds) |->
        IF d = doc_id THEN [ds[d] EXCEPT !.status = "ready"] ELSE ds[d]]

\* after the loop: UPDATE the status and COMMIT; the inserted rows and the
\* new status become visible together; return {"ok": True, "chunks": n}
IngestCommit(r) ==
    /\ run[r].pc = "insert"
    /\ Len(run[r].tx) = ZipLen(run[r].parts, run[r].vecs)
    /\ chunks' = chunks \o run[r].tx
    /\ docs' = SetReady(docs, run[r].doc_id)
    /\ run' = [run EXCEPT ![r].pc = "done", ![r].tx = <<>>]
    /\ resp' = [NoResp EXCEPT !.op = "ingest",
                              !.doc = run[r].doc_id, !.code = 200,
                              !.chunks = Len(run[r].parts)]
    /\ UNCHANGED <<files, job, prog>>

\* ----------------------------------------------------------------- search
\* embedding <-> qvec
Distance(a, b) == Abs(a - b)

\* mutant of TenantRows: the WHERE kc.tenant_id = ... predicate is missing
TenantRowsNoFilter(tenant_id) ==
    {i \in 1..Len(chunks) : chunks[i].doc_id \in 1..Len(docs)}

\* FROM kb_chunks kc JOIN kb_documents kd ON kd.id = kc.doc_id
\* WHERE kc.tenant_id = tenant_id: the rows (table positions) that qualify
TenantRows(tenant_id) ==
    {i \in 1..Len(chunks) : /\ chunks[i].doc_id \in 1..Len(docs)
                            /\ chunks[i].tenant_id = tenant_id}

\* mutant of search_chunks: ORDER BY ... DESC
search_chunksDescending(tenant_id, qvec, k) ==
    LET rows == TenantRows(tenant_id)
        m == Min(k, Cardinality(rows))
    IN  {h \in [1..m -> rows] :
            /\ \A a, b \in 1..m : a < b =>
                  /\ h[a] # h[b]
                  /\ Distance(chunks[h[a]].embedding, qvec)
                        >= Distance(chunks[h[b]].embedding, qvec)
            /\ \A x \in rows : (\A a \in 1..m : h[a] # x) =>
                  \A a \in 1..m : Distance(chunks[h[a]].embedding, qvec)
                                     >= Distance(chunks[x].embedding, qvec)}

\* ORDER BY embedding <-> qvec LIMIT k: every answer the database may give
\* (it leaves the order of rows at equal distance open)
search_chunks(tenant_id, qvec, k) ==
    LET rows == TenantRows(tenant_id)
        m == Min(k, Cardinality(rows))
    IN  {h \in [1..m -> rows] :
            /\ \A a, b \in 1..m : a < b =>
                  /\ h[a] # h[b]
                  /\ Distance(chunks[h[a]].embedding, qvec)
                        <= Distance(chunks[h[b]].embedding, qvec)
            /\ \A x \in rows : (\A a \in 1..m : h[a] # x) =>
                  \A a \in 1..m : Distance(chunks[h[a]].embedding, qvec)
                                     <= Distance(chunks[x].embedding, qvec)}

\* the selected columns of a hit: kc.doc_id, kc.text, score, kd.file_id
ResultRow(i, qvec) ==
    [doc_id |-> chunks[i].doc_id, text |-> chunks[i].text,
     score |-> Distance(chunks[i].embedding, qvec),
     file_id |-> docs[chunks[i].doc_id].file_id]

\* GET /search: vec is what the embedder returned for q
\* LIMIT with a negative k makes the statement fail: the database error
\* leaves the handler as an unhandled exception (HTTP 500)
semantic_search(tenant_id, vec, k) ==
    /\ IF k < 0
       THEN resp' = [NoResp EXCEPT !.op = "search", !.caller = tenant_id,
                                   !.code = 500, !.qvec = vec, !.k = k]
       ELSE \E h \in search_chunks(tenant_id, vec, k) :
          resp' = [NoResp EXCEPT !.op = "search", !.caller = tenant_id,
                                 !.code = 200, !.qvec = vec, !.k = k,
                                 !.hits = h,
                                 !.results = [a \in 1..Len(h) |-> ResultRow(h[a], vec)]]
    /\ UNCHANGED <<docs, files, chunks, run, job, prog>>

\* ----------------------------------------------------- job status tracker
JobTokens == {"pending", "running", "ready", "error", "done"}

\* rds.setex("job:{doc_id}", 259200, status)
job_set_status(doc_id, status) ==
    /\ job' = [job EXCEPT ![doc_id] = status]
    /\ UNCHANGED <<docs, files, chunks, run, prog, resp>>

\* rds.setex("job:{doc_id}:progress", 259200, progress)
job_set_progress(doc_id, progress) ==
    /\ prog' = [prog EXCEPT ![doc_id] = <<progress>>]
    /\ UNCHANGED <<docs, files, chunks, run, job, resp>>

\* the TTL of a job key runs out
JobExpire(doc_id) ==
    /\ \/ job[doc_id] # None /\ job' = [job EXCEPT ![doc_id] = None]
                             /\ prog' = prog
       \/ prog[doc_id] # <<>> /\ prog' = [prog EXCEPT ![doc_id] = <<>>]
                              /\ job' = job
    /\ UNCHANGED <<docs, files, chunks, run, resp>>

\* rds.get("job:{doc_id}") or "unknown"
job_get_status(doc_id) == IF job[doc_id] = None THEN "unknown" ELSE job[doc_id]

\* int(rds.get("job:{doc_id}:progress") or 0)
job_get_progress(doc_id) == IF prog[doc_id] = <<>> THEN 0 ELSE prog[doc_id][1]

\* ------------------------------------------------------------- doc_status
\* st = "ready" if status_db == "ready" else ("error" if ... else "ingesting")
StatusFromDb(status_db) ==
    IF status_db = "ready" THEN "ready"
    ELSE IF status_db = "error" THEN "error" ELSE "ingesting"

\* mutant of status_map: "ingesting" is not a key of the map
status_mapNoIngesting(st) ==
    CASE st = "pending" -> "pending"
      [] st = "running" -> "running"
      [] st = "ready" -> "ready"
      [] st = "error" -> "error"
      [] st = "done" -> "ready"
      [] OTHER -> "pending"

\* status_map.get(st, "pending")
status_map(st) ==
    CASE st = "pending" -> "pending"
      [] st = "running" -> "running"
      [] st = "ingesting" -> "running"
      [] st = "ready" -> "ready"
      [] st = "error" -> "error"
      [] st = "done" -> "ready"
      [] st = "unknown" -> "pending"
      [] OTHER -> "pending"

\* the database is asked only when Redis knows nothing or says "done"
AsksDb(st) == st \in {"unknown", "done"}

\* GET /documents/{doc_id}/status
doc_status(caller, doc_id) ==
    LET st == job_get_status(doc_id)
        pr == job_get_progress(doc_id)
        base == [NoResp EXCEPT !.op = "status", !.caller = caller,
                               !.doc = doc_id]
    IN
    /\ IF AsksDb(st)
       THEN IF doc_id \notin 1..Len(docs)
            THEN resp' = [base EXCEPT !.code = 404]
            ELSE IF docs[doc_id].tenant_id # caller
            THEN resp' = [base EXCEPT !.code = 403]
            ELSE resp' = [base EXCEPT !.code = 200, !.progress = pr,
                            !.status = status_map(
                               IF st = "unknown"
                               THEN StatusFromDb(docs[doc_id].status)
                               ELSE st)]
       ELSE resp' = [base EXCEPT !.code = 200, !.progress = pr,
                                 !.status = status_map(st)]
    /\ UNCHANGED <<docs, files, chunks, run, job, prog>>

\* GET /documents/{doc_id}/status while Redis is unreachable: rds.get
\* raises in the handler's first statement, nothing catches it, and the
\* request ends with HTTP 500 before the database is asked
doc_statusRedisDown(caller, doc_id) ==
    /\ resp' = [NoResp EXCEPT !.op = "status", !.caller = caller,
                              !.doc = doc_id, !.code = 500]
    /\ UNCHANGED <<docs, files, chunks, run, job, prog>>

\* ------------------------------------------------------------------- Next
\* the handler's return statement: the response leaves the server.  A
\* response is looked at in the state that produced it, so the next request
\* step is taken once it has been returned.
Return ==
    /\ resp # NoResp
    /\ resp' = NoResp
    /\ UNCHANGED <<docs, files, chunks, run, job, prog, ck, llm>>

\* POST /files/commit by any tenant with any storage key
Commit ==
    /\ resp = NoResp
    /\ \E t \in Tenants, key \in StorageKeys : commit_file(t, key)
    /\ UNCHANGED <<ck, llm>>

\* POST /files/commit whose database transaction fails
CommitFail ==
    /\ resp = NoResp
    /\ \E t \in Tenants, key \in StorageKeys : insert_file_and_docFail(t, key)
    /\ UNCHANGED <<ck, llm>>

\* POST /documents/{doc_id}/ingest by any tenant for any document id, then
\* the steps of each request in flight
Start ==
    /\ resp = NoResp
    /\ \E r \in Runs, t \in Tenants, d \in DocIds : IngestStart(r, t, d)
    /\ UNCHANGED <<ck, llm>>

Download ==
    /\ resp = NoResp
    /\ \E r \in Runs, n \in TextLens : IngestDownload(r, n)
    /\ UNCHANGED <<ck, llm>>

DownloadFail ==
    /\ resp = NoResp
    /\ \E r \in Runs : IngestDownloadFail(r)
    /\ UNCHANGED <<ck, llm>>

Embed ==
    /\ resp = NoResp
    /\ \E r \in Runs : IngestEmbed(r)
    /\ UNCHANGED <<ck, llm>>

EmbedFail ==
    /\ resp = NoResp
    /\ \E r \in Runs : IngestEmbedFail(r)
    /\ UNCHANGED <<ck, llm>>

Insert ==
    /\ resp = NoResp
    /\ \E r \in Runs : IngestInsert(r)
    /\ UNCHANGED <<ck, llm>>

InsertFail ==
    /\ resp = NoResp
    /\ \E r \in Runs : IngestInsertFail(r)
    /\ UNCHANGED <<ck, llm>>

CommitChunks ==
    /\ resp = NoResp
    /\ \E r \in Runs : IngestCommit(r)
    /\ UNCHANGED <<ck, llm>>

\* GET /search by any tenant; the embedder may return any vector
Search ==
    /\ resp = NoResp
    /\ \E t \in Tenants, v \in Vecs, k \in Ks : semantic_search(t, v, k)
    /\ UNCHANGED <<ck, llm>>

\* GET /documents/{doc_id}/status by any tenant for any document id
Status ==
    /\ resp = NoResp
    /\ \E t \in Tenants, d \in DocIds : doc_status(t, d)
    /\ UNCHANGED <<ck, llm>>

\* the HTTP API: commit, ingest (step by step), search, status
Next ==
    \/ Commit
    \/ CommitFail
    \/ Start
    \/ Download
    \/ DownloadFail
    \/ Embed
    \/ EmbedFail
    \/ Insert
    \/ InsertFail
    \/ CommitChunks
    \/ Search
    \/ Status
    \/ Return

Spec == Init /\ [][Next]_vars

\* the tracker operations of kb_jobs, which no handler calls: a worker
\* outside the API sets the job keys, and Redis expires them
SetStatus ==
    /\ resp = NoResp
    /\ \E d \in DocIds, s \in JobTokens : job_set_status(d, s)
    /\ UNCHANGED <<ck, llm>>

SetProgress ==
    /\ resp = NoResp
    /\ \E d \in DocIds, n \in 0..MaxProgress : job_set_progress(d, n)
    /\ UNCHANGED <<ck, llm>>

Expire ==
    /\ resp = NoResp
    /\ \E d \in DocIds : JobExpire(d)
    /\ UNCHANGED <<ck, llm>>

\* GET /documents/{doc_id}/status at a moment when Redis is unreachable
StatusRedisDown ==
    /\ resp = NoResp
    /\ \E t \in Tenants, d \in DocIds : doc_statusRedisDown(t, d)
    /\ UNCHANGED <<ck, llm>>

\* commit and status together with the tracker operations
NextTracker ==
    \/ Commit
    \/ CommitFail
    \/ Status
    \/ StatusRedisDown
    \/ SetStatus
    \/ SetProgress
    \/ Expire
    \/ Return

SpecTracker == Init /\ [][NextTracker]_vars

\* the end-to-end scenario: files are committed and one ingest request, for
\* a document whose text has 10,000 characters, runs without a failure;
\* status may be asked at any time
StartScenario ==
    /\ resp = NoResp
    /\ \E t \in Tenants, d \in DocIds : IngestStart(1, t, d)
    /\ UNCHANGED <<ck, llm>>

DownloadScenario ==
    /\ resp = NoResp
    /\ \E r \in Runs, n \in ScenarioLens : IngestDownload(r, n)
    /\ UNCHANGED <<ck, llm>>

NextScenario ==
    \/ Commit
    \/ StartScenario
    \/ DownloadScenario
    \/ Embed
    \/ Insert
    \/ CommitChunks
    \/ Status
    \/ Return

SpecScenario == Init /\ [][NextScenario]_vars

\* ----------------------------------------------------------------- _chunk
\* text[i:j]
Slice(text, i, j) == SubSeq(text, i + 1, j)

\* mutant of NextCursor: the cursor always moves to the end of the chunk
NextCursorToEnd(i, j, overlap) == j

\* mutant of NextCursor: the cursor moves back by the overlap without the
\* comparison with i
NextCursorNoGuard(i, j, overlap) == j - overlap

\* i = j - overlap if j - overlap > i else j
NextCursor(i, j, overlap) == IF j - overlap > i THEN j - overlap ELSE j

\* _chunk(text, size, overlap) is called: chunks = [], i = 0, n = len(text)
ChunkCall(text, size, overlap) ==
    [pc |-> "loop", text |-> text, size |-> size, overlap |-> overlap,
     i |-> 0, n |-> Len(text), chunks |-> <<>>]

\* one iteration of while i < n
ChunkIter ==
    /\ ck.pc = "loop"
    /\ ck.i < ck.n
    /\ LET j == Min(ck.i + ck.size, ck.n)
       IN  ck' = [ck EXCEPT !.chunks = Append(@, Slice(ck.text, ck.i, j)),
                            !.i = NextCursor(ck.i, j, ck.overlap)]
    /\ UNCHANGED <<docs, files, chunks, run, job, prog, resp, llm>>

\* the loop condition is false: return chunks
ChunkReturn ==
    /\ ck.pc = "loop"
    /\ ~(ck.i < ck.n)
    /\ ck' = [ck EXCEPT !.pc = "done"]
    /\ UNCHANGED <<docs, files, chunks, run, job, prog, resp, llm>>

\* a call of _chunk with any text, any size >= 1 and any overlap >= 0
InitChunk ==
    /\ docs = <<>>
    /\ files = <<>>
    /\ chunks = <<>>
    /\ run = [r \in Runs |-> IdleRun]
    /\ job = [d \in DocIds |-> None]
    /\ prog = [d \in DocIds |-> <<>>]
    /\ resp = NoResp
    /\ llm = IdleLlm
    /\ \E text \in Texts, size \in Sizes, overlap \in Overlaps :
          ck = ChunkCall(text, size, overlap)

NextChunk == ChunkIter \/ ChunkReturn

SpecChunk == InitChunk /\ [][NextChunk]_vars

\* ----------------------------------------------------------- llm settings
\* the other variables, which the settings repository does not touch
kbvars == <<docs, files, chunks, run, job, prog, resp, ck>>

\* get_llm_settings is called: c = rds.get(key); if c: return json.loads(c)
get_llm_settingsCall(p) ==
    /\ llm.get[p].pc = "idle"
    /\ llm' = [llm EXCEPT !.get[p] =
                  IF llm.cache # 0
                  THEN [pc |-> "returned", row |-> 0, ret |-> llm.cache,
                        since |-> llm.settled]
                  ELSE [pc |-> "select", row |-> 0, ret |-> 0,
                        since |-> llm.settled]]
    /\ UNCHANGED kbvars

\* on a miss: SELECT ... FROM llm_settings WHERE tenant_id = ...; return
\* None when there is no row
get_llm_settingsSelect(p) ==
    /\ llm.get[p].pc = "select"
    /\ llm' = [llm EXCEPT !.get[p].pc = IF llm.db = 0 THEN "returned" ELSE "setex",
                          !.get[p].row = llm.db]
    /\ UNCHANGED kbvars

\* rds.setex(key, 1800, json.dumps(data)); return data
get_llm_settingsSetex(p) ==
    /\ llm.get[p].pc = "setex"
    /\ llm' = [llm EXCEPT !.cache = llm.get[p].row,
                          !.get[p].pc = "returned",
                          !.get[p].ret = llm.get[p].row]
    /\ UNCHANGED kbvars

\* the caller has the returned value; the next call may begin
get_llm_settingsDone(p) ==
    /\ llm.get[p].pc = "returned"
    /\ llm' = [llm EXCEPT !.get[p] = IdleLlm.get[p]]
    /\ UNCHANGED kbvars

\* upsert_llm_settings(tenant_id, s): INSERT ... ON CONFLICT DO UPDATE and
\* conn.commit()
upsert_llm_settingsCommit(s) ==
    /\ llm.up = "idle"
    /\ llm' = [llm EXCEPT !.db = s, !.up = "delete", !.settled = 0,
                          !.get = [p \in Readers |-> [llm.get[p] EXCEPT !.since = 0]]]
    /\ UNCHANGED kbvars

\* after the database block: rds.delete(key), and the function returns
upsert_llm_settingsDelete ==
    /\ llm.up = "delete"
    /\ llm' = [llm EXCEPT !.cache = 0, !.up = "idle", !.settled = llm.db]
    /\ UNCHANGED kbvars

\* the 1800 s of the cache key run out
LlmCacheExpire ==
    /\ llm.cache # 0
    /\ llm' = [llm EXCEPT !.cache = 0]
    /\ UNCHANGED kbvars

GetCall == \E p \in Readers : get_llm_settingsCall(p)

GetSelect == \E p \in Readers : get_llm_settingsSelect(p)

GetSetex == \E p \in Readers : get_llm_settingsSetex(p)

GetDone == \E p \in Readers : get_llm_settingsDone(p)

UpsertCommit == \E s \in Settings : upsert_llm_settingsCommit(s)

\* any number of concurrent readers' calls, one writer's calls one after
\* another, and the expiry of the key
NextLlm ==
    \/ GetCall
    \/ GetSelect
    \/ GetSetex
    \/ GetDone
    \/ UpsertCommit
    \/ upsert_llm_settingsDelete
    \/ LlmCacheExpire

SpecLlm == Init /\ [][NextLlm]_vars

\* ================================================================= claims

\* C1: every chunk row a search returns carries the tenant_id of the tenant
\* that searched, whatever the stored rows, the query vector and k.
C1_SearchTenantIsolation ==
    resp.op = "search" =>
        \A a \in 1..Len(resp.hits) : chunks[resp.hits[a]].tenant_id = resp.caller

\* C1 witness: a search returned rows while rows of another tenant are stored
C1_Witness ==
    /\ resp.op = "search"
    /\ Len(resp.hits) >= 1
    /\ \E i \in 1..Len(chunks) : chunks[i].tenant_id # resp.caller

\* C2 (as claimed): an ingest whose caller is not the tenant of the document
\* ends at once with a not-found response, so it inserts nothing and does
\* not touch the status.
C2_ForeignIngestNotFound ==
    [][\A r \in Runs, t \in Tenants, d \in DocIds :
          (IngestStart(r, t, d) /\ d \in 1..Len(docs) /\ docs[d].tenant_id # t)
             => (resp'.code = 404 /\ run'[r].pc = "notfound")]_vars

\* C3 (as claimed): when an ingestion run answers ok with n chunks, the
\* persisted rows of its document are exactly that run's n rows; rows of an
\* earlier run are gone.
C3_RerunReplacesChunks ==
    (resp.op = "ingest" /\ resp.code = 200) =>
        /\ Cardinality(RowsOfDoc(resp.doc)) = resp.chunks
        /\ \A i, j \in RowsOfDoc(resp.doc) : chunks[i].xmin = chunks[j].xmin

\* C4: the step in which the embedding call of a run fails changes no chunk
\* row, and no row of that run is persisted.
C4_EmbedFailurePersistsNothing ==
    [][\A r \in Runs :
          (run[r].pc = "embed" /\ run'[r].pc = "embed_failed")
             => (chunks' = chunks /\ \A i \in 1..Len(chunks') : chunks'[i].xmin # r)]_vars

\* C4 witness: the embedding call failed in a run on a document that has
\* rows of an earlier run
C4_Witness ==
    \E r \in Runs : run[r].pc = "embed_failed" /\ RowsOfDoc(run[r].doc_id) # {}

\* C5 (as claimed): after the embedding call of a run has failed the durable
\* status of its document is error.
C5_EmbedFailureMarksError ==
    \A r \in Runs :
        run[r].pc = "embed_failed" => docs[run[r].doc_id].status = "error"

\* C6: the committed kb_chunks rows (what any search reads) hold, of each
\* ingestion run, either no row or all of its rows: none while the run is
\* inserting or after one of its statements failed, all once it committed.
C6_ChunksAllOrNothing ==
    \A r \in Runs :
        \/ CommittedBy(r) = {}
        \/ /\ run[r].pc = "done"
           /\ Cardinality(CommittedBy(r)) = ZipLen(run[r].parts, run[r].vecs)

\* C6 witness: a search of the run's tenant answers while the run has
\* inserted some but not all of its rows
C6_Witness ==
    /\ resp.op = "search"
    /\ \E r \in Runs :
          /\ run[r].pc = "insert"
          /\ resp.caller = run[r].tenant_id
          /\ Len(run[r].tx) >= 1
          /\ Len(run[r].tx) < ZipLen(run[r].parts, run[r].vecs)

\* C7 (as claimed): no two ingestion runs of the same document are in
\* flight at the same time.
C7_OneRunPerDocument ==
    \A r1, r2 \in Runs :
        (r1 # r2 /\ InFlight(r1) /\ InFlight(r2)) => run[r1].doc_id # run[r2].doc_id

\* the kb_chunks rows of document d, in table order
ChunksOfDoc(cs, d) == SelectSeq(cs, LAMBDA c : c.doc_id = d)

\* C8: a step of an ingestion run on document d1 changes neither the
\* kb_documents row nor the kb_chunks rows of any other document.
C8_OtherDocumentsUntouched ==
    [][\A r \in Runs : run'[r] # run[r] =>
          \A d2 \in 1..Len(docs) : d2 # run'[r].doc_id =>
              /\ Len(docs') = Len(docs)
              /\ docs'[d2] = docs[d2]
              /\ ChunksOfDoc(chunks', d2) = ChunksOfDoc(chunks, d2)]_vars

\* C8 witness: a run has committed on one document while a run on another
\* document, still ingesting, is in flight
C8_Witness ==
    \E r1, r2 \in Runs :
        /\ run[r1].pc = "done"
        /\ InFlight(r2)
        /\ run[r1].doc_id # run[r2].doc_id
        /\ docs[run[r2].doc_id].status = "ingesting"

\* the durable status of the document a status response is about
DurableOfResp == docs[resp.doc].status

\* C9 (as claimed): without a cache entry, status answers ready for durable
\* ready, error for durable error and pending for anything else.
C9_FallbackPending ==
    (resp.op = "status" /\ resp.code = 200 /\ job[resp.doc] = None) =>
        resp.status = (IF DurableOfResp = "ready" THEN "ready"
                       ELSE IF DurableOfResp = "error" THEN "error"
                       ELSE "pending")

\* C9 (amended): without a cache entry, status answers ready for durable
\* ready, error for durable error and running for anything else
\* (ingesting included).
C9_FallbackRunning ==
    (resp.op = "status" /\ resp.code = 200 /\ job[resp.doc] = None) =>
        resp.status = (IF DurableOfResp = "ready" THEN "ready"
                       ELSE IF DurableOfResp = "error" THEN "error"
                       ELSE "running")

\* C9 witness: status answered, from the database, for a document that is
\* still ingesting
C9_Witness ==
    /\ resp.op = "status"
    /\ resp.code = 200
    /\ job[resp.doc] = None
    /\ DurableOfResp = "ingesting"

\* C10 (as claimed): status asked by a tenant that does not own the document
\* is refused (403 or 404), with or without a cache entry.
C10_ForeignStatusRefused ==
    (/\ resp.op = "status"
     /\ resp.doc \in 1..Len(docs)
     /\ docs[resp.doc].tenant_id # resp.caller) => resp.code \in {403, 404}

\* C11 (as claimed): the tokens job_set_status stores for a document never
\* go from ready or error back to running, and never from pending straight
\* to ready.
C11_TrackerStateMachine ==
    [][\A d \in DocIds :
          /\ job[d] \in {"ready", "error"} => job'[d] # "running"
          /\ job[d] = "pending" => job'[d] # "ready"]_vars

\* C12 (as claimed): while the tracker status of a document stays running a
\* newly stored progress is never below the stored one, and right after the
\* status is set to pending the progress that job_get_progress reads is 0.
C12_ProgressMonotoneAndReset ==
    [][\A d \in DocIds :
          /\ (job[d] = "running" /\ job'[d] = "running"
                /\ prog[d] # <<>> /\ prog'[d] # <<>>)
                => prog'[d][1] >= prog[d][1]
          /\ (job[d] # "pending" /\ job'[d] = "pending")
                => (prog'[d] = <<>> \/ prog'[d] = <<0>>)]_vars

RECURSIVE DropOverlapAndJoin(_, _, _)
\* the chunks from the k-th on, each without its first overlap characters,
\* joined in order
DropOverlapAndJoin(cs, k, overlap) ==
    IF k > Len(cs) THEN <<>>
    ELSE SubSeq(cs[k], overlap + 1, Len(cs[k])) \o DropOverlapAndJoin(cs, k + 1, overlap)

\* the first chunk whole, then every later chunk without its first overlap
\* characters
Reconstruct(cs, overlap) ==
    IF cs = <<>> THEN <<>> ELSE cs[1] \o DropOverlapAndJoin(cs, 2, overlap)

\* C13: for overlap < size, the first chunk followed by the later chunks
\* without their first overlap characters is the text that was chunked.
C13_ReconstructsText ==
    (ck.pc = "done" /\ ck.overlap < ck.size) =>
        Reconstruct(ck.chunks, ck.overlap) = ck.text

\* C13 witness: a call with a positive overlap below the size returned at
\* least three chunks
C13_Witness ==
    /\ ck.pc = "done"
    /\ 0 < ck.overlap
    /\ ck.overlap < ck.size
    /\ Len(ck.chunks) >= 3

\* ceil(a / b) for a >= 0, b > 0
CeilDiv(a, b) == (a + b - 1) \div b

\* C14 (as claimed): for overlap < size and a text longer than size, _chunk
\* returns ceil((len - overlap) / (size - overlap)) chunks.
C14_ChunkCount ==
    (ck.pc = "done" /\ ck.overlap < ck.size /\ ck.n > ck.size) =>
        Len(ck.chunks) = CeilDiv(ck.n - ck.overlap, ck.size - ck.overlap)

\* C15 (as claimed): for overlap < size, _chunk returns no chunk for the
\* empty text and the text itself as the only chunk when its length is
\* between 1 and size.
C15_EmptyAndSingleChunk ==
    (ck.pc = "done" /\ ck.overlap < ck.size) =>
        /\ ck.n = 0 => ck.chunks = <<>>
        /\ (0 < ck.n /\ ck.n <= ck.size) => ck.chunks = <<ck.text>>

\* C16: for every size >= 1 and overlap >= 0 (overlap >= size included)
\* each iteration moves the cursor strictly forward, never past the end of
\* the text, and the loop is left with the cursor at the length of the text.
C16_CursorProgress ==
    [][ck.pc = "loop" =>
          \/ ck'.pc = "loop" /\ ck'.i > ck.i /\ ck'.i <= ck.n
          \/ ck'.pc = "done" /\ ck'.i = ck.n /\ ck.i = ck.n]_vars

\* C16 witness: a call with overlap >= size has returned after more than
\* one iteration
C16_Witness ==
    /\ ck.pc = "done"
    /\ ck.overlap >= ck.size
    /\ Len(ck.chunks) >= 2

\* C17 (as claimed): once the ingestion of the 10,000-character document has
\* succeeded, the document has exactly 3 chunk rows, with indices 0, 1 and
\* 2, its status is ready, and status() answers ready to its tenant.
C17_TenThousandCharScenario ==
    /\ \A r \in Runs : run[r].pc = "done" =>
          /\ Cardinality(RowsOfDoc(run[r].doc_id)) = 3
          /\ {chunks[i].chunk_index : i \in RowsOfDoc(run[r].doc_id)} = {0, 1, 2}
          /\ docs[run[r].doc_id].status = "ready"
    /\ (/\ resp.op = "status"
        /\ resp.code = 200
        /\ \E r \in Runs : run[r].pc = "done" /\ run[r].doc_id = resp.doc)
          => resp.status = "ready"

\* C18 (as claimed): the chunk_index values of the persisted rows of every
\* document are exactly 0..n-1, n being the number of its rows.
C18_ContiguousIndices ==
    \A d \in DocIds :
        {chunks[i].chunk_index : i \in RowsOfDoc(d)}
            = 0..(Cardinality(RowsOfDoc(d)) - 1)

\* C19: of a run that succeeded, the row persisted with chunk_index i holds
\* the chunker's i-th segment and the i-th vector of the embedding answer,
\* and no two rows of the run have the same chunk_index.
C19_OrderPreserved ==
    \A r \in Runs : run[r].pc = "done" =>
        /\ \A row \in CommittedBy(r) :
              /\ chunks[row].chunk_index \in 0..(ZipLen(run[r].parts, run[r].vecs) - 1)
              /\ chunks[row].text = run[r].parts[chunks[row].chunk_index + 1]
              /\ chunks[row].embedding = run[r].vecs[chunks[row].chunk_index + 1]
        /\ \A row1, row2 \in CommittedBy(r) :
              chunks[row1].chunk_index = chunks[row2].chunk_index => row1 = row2

\* C19 witness: a run succeeded with several chunks whose vectors differ
C19_Witness ==
    \E r \in Runs :
        /\ run[r].pc = "done"
        /\ Len(run[r].parts) >= 3
        /\ Len(run[r].vecs) >= 3
        /\ run[r].vecs[1] # run[r].vecs[3]

\* the stored chunk rows of the tenant a search response went to
ChunksOfCaller == {i \in 1..Len(chunks) : chunks[i].tenant_id = resp.caller}

\* C20: a search with k > 0 answers min(k, number of the tenant's chunks)
\* different rows in order of non-decreasing distance to the query vector,
\* no chunk of the tenant that is left out is strictly closer than a
\* returned one, and each score is the distance of its row.
C20_NearestRows ==
    (resp.op = "search" /\ resp.k > 0) =>
        /\ Len(resp.hits) = Min(resp.k, Cardinality(ChunksOfCaller))
        /\ Len(resp.results) = Len(resp.hits)
        /\ \A a, b \in 1..Len(resp.hits) : a < b =>
              /\ resp.hits[a] # resp.hits[b]
              /\ resp.results[a].score <= resp.results[b].score
        /\ \A a \in 1..Len(resp.hits) :
              /\ resp.results[a].score
                    = Abs(chunks[resp.hits[a]].embedding - resp.qvec)
              /\ \A x \in ChunksOfCaller :
                    (\A b \in 1..Len(resp.hits) : resp.hits[b] # x)
                       => resp.results[a].score
                             <= Abs(chunks[x].embedding - resp.qvec)

\* C20 witness: a search with k below the number of the tenant's chunks left
\* out a chunk that is strictly farther than the returned ones
C20_Witness ==
    /\ resp.op = "search"
    /\ Len(resp.hits) >= 1
    /\ resp.k < Cardinality(ChunksOfCaller)
    /\ \E x \in ChunksOfCaller :
          \A a \in 1..Len(resp.hits) :
              resp.results[a].score < Abs(chunks[x].embedding - resp.qvec)

\* C21 (as claimed): rows of a search answer that are at equal distance
\* from the query vector come in insertion order, so the same search over
\* the same chunks has one possible answer.
C21_TiesInInsertionOrder ==
    resp.op = "search" =>
        \A a, b \in 1..Len(resp.hits) :
            (a < b /\ resp.results[a].score = resp.results[b].score)
                => resp.hits[a] < resp.hits[b]

\* C22 (as claimed): a search with k <= 0 is refused with an
\* invalid-argument (client) error and returns no rows.
C22_InvalidKRefused ==
    (resp.op = "search" /\ resp.k <= 0) =>
        /\ resp.code \in {400, 422}
        /\ resp.hits = <<>>

\* C23 (as claimed): a status request that finds the cache store failing,
\* for a document of the caller's that the durable store holds, succeeds
\* with the status derived from the durable status.
C23_CacheFailureFallsBack ==
    [][\A t \in Tenants, d \in DocIds :
          (doc_statusRedisDown(t, d) /\ d \in 1..Len(docs)
              /\ docs[d].tenant_id = t)
             => /\ resp'.code = 200
                /\ resp'.status = status_map(StatusFromDb(docs[d].status))]_vars

\* C24 (as claimed): when an ingestion run ends, the tracker entry of its
\* document holds ready if the run set the document to ready and error if
\* the run failed.
C24_TrackerMirrorsOutcome ==
    resp.op = "ingest" =>
        /\ resp.code = 200 => job[resp.doc] = "ready"
        /\ resp.code = 500 => job[resp.doc] = "error"

\* every File row is referenced by exactly one Document row, of its tenant
OneDocumentPerFile ==
    \A f \in 1..Len(files) :
        /\ Cardinality({d \in 1..Len(docs) : docs[d].file_id = f}) = 1
        /\ \A d \in 1..Len(docs) :
              docs[d].file_id = f => docs[d].tenant_id = files[f].tenant_id

\* C25: a commit that succeeds adds exactly one File row and exactly one
\* Document row that references it, both of the caller's tenant, the
\* Document with status ingesting; a commit that does not succeed adds
\* neither; and at all times every File row is referenced by exactly one
\* Document row.
C25_CommitOneFileOneDocument ==
    /\ []OneDocumentPerFile
    /\ [][(resp.op = "none" /\ resp'.op = "commit") =>
            IF resp'.code = 200
            THEN /\ Len(files') = Len(files) + 1
                 /\ Len(docs') = Len(docs) + 1
                 /\ SubSeq(files', 1, Len(files)) = files
                 /\ SubSeq(docs', 1, Len(docs)) = docs
                 /\ resp'.doc = Len(docs')
                 /\ docs'[Len(docs')] = [tenant_id |-> resp'.caller,
                                         file_id |-> Len(files'),
                                         status |-> "ingesting"]
                 /\ files'[Len(files')].tenant_id = resp'.caller
            ELSE files' = files /\ docs' = docs]_vars

\* C25 witness: a commit succeeded after commits of another tenant had
\* succeeded
C25_Witness ==
    /\ resp.op = "commit"
    /\ resp.code = 200
    /\ Len(files) >= 2
    /\ files[1].tenant_id # resp.caller

\* C26: a commit whose storage key is not under the caller's tenant prefix
\* (or is missing) answers 403 and adds no File row and no Document row.
C26_ForeignKeyRefused ==
    [][\A t \in Tenants, key \in StorageKeys :
          (resp.op = "none" /\ resp'.op = "commit" /\ resp'.caller = t
              /\ key # t /\ (commit_file(t, key) \/ insert_file_and_docFail(t, key)))
             => (resp'.code = 403 /\ files' = files /\ docs' = docs)]_vars

\* C26 witness: a commit was refused while rows of an earlier commit exist
C26_Witness ==
    /\ resp.op = "commit"
    /\ resp.code = 403
    /\ Len(docs) >= 1
    /\ Len(docs) < MaxDocs

\* C29 (as claimed): the step in which an ingestion run answers ok with
\* chunk count n persists exactly n chunk rows, which carry the indices
\* 0..n-1, whatever the length of the embedding answer.
C29_ReportedCountIsPersisted ==
    [][\A r \in Runs :
          (run[r].pc = "insert" /\ run'[r].pc = "done") =>
              /\ Len(chunks') - Len(chunks) = resp'.chunks
              /\ {chunks'[i].chunk_index : i \in (Len(chunks) + 1)..Len(chunks')}
                    = 0..(resp'.chunks - 1)]_vars

\* C27: every persisted chunk row carries the tenant of the Document it
\* belongs to, and the file of every search hit is a file of the searching
\* tenant.
C27_ChunkTenantIsDocumentTenant ==
    /\ \A i \in 1..Len(chunks) :
          /\ chunks[i].doc_id \in 1..Len(docs)
          /\ chunks[i].tenant_id = docs[chunks[i].doc_id].tenant_id
    /\ resp.op = "search" =>
          \A a \in 1..Len(resp.results) :
              /\ resp.results[a].file_id \in 1..Len(files)
              /\ files[resp.results[a].file_id].tenant_id = resp.caller

\* C27 witness: a search returned hits while documents of two tenants have
\* chunk rows
C27_Witness ==
    /\ resp.op = "search"
    /\ Len(resp.results) >= 1
    /\ \E i, j \in 1..Len(chunks) :
          docs[chunks[i].doc_id].tenant_id # docs[chunks[j].doc_id].tenant_id

\* C28: every persisted chunk row belongs to a Document whose durable
\* status is ready.
C28_ChunksOnlyOfReadyDocuments ==
    \A i \in 1..Len(chunks) :
        /\ chunks[i].doc_id \in 1..Len(docs)
        /\ docs[chunks[i].doc_id].status = "ready"

\* C28 witness: a document has chunk rows while a later run on it is in
\* flight or has failed
C28_Witness ==
    \E r \in Runs :
        /\ run[r].pc \in {"embed", "insert", "embed_failed", "insert_failed"}
        /\ RowsOfDoc(run[r].doc_id) # {}

\* C30 (as claimed, for the calls that even began after the upsert had
\* returned): a get_llm_settings call that began after upsert_llm_settings
\* returned, with no write since, returns the values of that upsert.
C30_GetAfterUpsertIsFresh ==
    \A p \in Readers :
        (llm.get[p].pc = "returned" /\ llm.settled # 0
            /\ llm.get[p].since = llm.settled)
           => llm.get[p].ret = llm.settled

=============================================================================
